---- MODULE Spec2Model ----
(***************************************************************************)
(* Blink detection of pupil_src/shared_modules/blink_detection.py:         *)
(* the streaming detector Blink_Detection.recent_events and the batch      *)
(* detector Offline_Blink_Detection.recalculate.                           *)
(*                                                                         *)
(* Numbers.  Timestamps and history_length are integers (ticks of one      *)
(* common unit).  A confidence c stands for c / ConfUnit and a threshold   *)
(* t for t / ThScale.  A filter response is kept as an exact fraction      *)
(* <<num, den>> with den > 0, so that every comparison of the code is      *)
(* decided exactly; floating point rounding is not modelled.               *)
(***************************************************************************)
EXTENDS Integers, Sequences, FiniteSets, TLC

\* ---------------------------------------------------------------- bounds
MaxTime == 2        \* timestamps range over 0..MaxTime
MaxWindow == 3      \* most samples the streaming window holds after extend
MaxBatch == 2       \* most samples one recent_events call appends
MaxHistoryLength == 1   \* history_length ranges over 0..MaxHistoryLength
ConfScale == 1      \* confidences are the multiples of 1 / ConfScale
MaxSamples == 2     \* most samples in g_pool.pupil_positions
MaxLoaded == 3      \* most samples in a recording loaded at construction
MaxDuration == 4    \* timestamps of a recording range over 0..MaxDuration
MaxPending == 3     \* most notifications in flight

\* thresholds are counted in slider steps of .05: t stands for t / ThScale
ThScale == 20

\* pp['confidence'] is counted in tenths: c stands for c / ConfUnit
ConfUnit == 10

VARIABLES
    history,                      \* Blink_Detection.history (deque)
    history_length,               \* seconds, in ticks
    onset_confidence_threshold,
    offset_confidence_threshold,
    events_blinks,                \* events['blinks'] of the last call
    recent_blink,                 \* self._recent_blink; <<>> is None
    appended,                     \* how many samples the call appended
    extended,                     \* the window after extend, before trimming
    response,                     \* local filter_response of the last call
    pupil_positions,              \* g_pool.pupil_positions
    timestamps,                   \* Offline_Blink_Detection.timestamps
    filter_response,              \* Offline_Blink_Detection.filter_response
    response_classification,      \* ....response_classification
    notifications,                \* notify_all messages not yet delivered
    raised,                       \* how the recalculate call that just ran
                                  \* ended: "none" or the exception raised;
                                  \* "idle" when no call has just run
    written,                      \* the fields that recalculate call assigned
    ret,                          \* where the recent_events call that
                                  \* just ran returned; "idle" otherwise
    recorded                      \* the events of a run of recent_events
                                  \* calls on a given sample stream, in
                                  \* the order the calls appended them

vars == << history, history_length, onset_confidence_threshold,
           offset_confidence_threshold, events_blinks, recent_blink,
           appended, extended, response, pupil_positions, timestamps,
           filter_response, response_classification, notifications,
           raised, written, ret, recorded >>

streamVars == << history, events_blinks, recent_blink, appended, extended,
                response, ret, recorded >>

batchVars == << pupil_positions, timestamps, filter_response,
                response_classification, notifications, raised, written >>

\* ------------------------------------------------------------ data model
Confidences == { (ConfUnit * k) \div ConfScale : k \in 0..ConfScale }
\* the sliders' minimum 0., the default 0.5 and the maximum 1.
Thresholds == { 0, ThScale \div 2, ThScale }
HistoryLengths == 0..MaxHistoryLength

\* a sample (a pupil position) is [timestamp |-> t, confidence |-> c]

Last(s) == s[Len(s)]

\* --------------------------------------------------- exact fractions
Abs(x) == IF x < 0 THEN -x ELSE x

\* fraction f = <<num, den>>, den > 0, against the threshold t / ThScale
GreaterThan(f, t) == f[1] * ThScale > t * f[2]
LessThanNeg(f, t) == f[1] * ThScale < (-t) * f[2]

LessEq(f, t) == f[1] * ThScale <= t * f[2]
GreaterEqNeg(f, t) == f[1] * ThScale >= (-t) * f[2]

\* ------------------------------------------- Blink_Detection (streaming)
\* mutant of TrimLoop: the loop tests the oldest sample, history[0]
RECURSIVE TrimLoopOldest(_, _)
TrimLoopOldest(w, age_threshold) ==
    IF Len(w) < 1 THEN w
    ELSE IF w[1].timestamp < age_threshold
         THEN TrimLoopOldest(Tail(w), age_threshold)
         ELSE w

\* mutant of TrimHistory: outdated samples are never removed
TrimHistoryNever(w, hl) == w

\* while self.history[1]['timestamp'] < age_threshold: popleft();
\* history[1] on a window of fewer than 2 samples is the IndexError
\* that ends the loop
RECURSIVE TrimLoop(_, _)
TrimLoop(w, age_threshold) ==
    IF Len(w) < 2 THEN w
    ELSE IF w[2].timestamp < age_threshold
         THEN TrimLoop(Tail(w), age_threshold)
         ELSE w

\* the try block: history[-1] of an empty deque raises IndexError too
TrimHistory(w, hl) ==
    IF Len(w) = 0 THEN w
    ELSE TrimLoop(w, Last(w).timestamp - hl)

\* mutant of InsufficientHistory: the span of the window is not looked at
InsufficientHistoryNoSpan(w, hl) == Len(w) < 2

\* the early return on too little history
InsufficientHistory(w, hl) ==
    Len(w) < 2 \/ Last(w).timestamp - w[1].timestamp < hl

\* mutant of FilterSign: the middle entry of an odd kernel stays positive
FilterSignMiddlePositive(i, n) == IF 2 * i < n THEN 1 ELSE -1

\* mutant of FilterSign: the second half of the kernel is not negated
FilterSignPlain(i, n) == 1

\* blink_filter = ones(n) / n; blink_filter[n // 2:] *= -1
\* sign of the kernel entry at the 0-based index i
FilterSign(i, n) == IF i < n \div 2 THEN 1 ELSE -1

\* sum of activity[i] * sign(kernel[i]) over the 1-based indices k..Len(w)
RECURSIVE SignedSum(_, _)
SignedSum(w, k) ==
    IF k > Len(w) THEN 0
    ELSE w[k].confidence * FilterSign(k - 1, Len(w)) + SignedSum(w, k + 1)

\* activity @ blink_filter / 0.45 as a fraction:
\* (sum / (ConfUnit * n)) / (9 / 20)
StreamResponse(w) == << 20 * SignedSum(w, 1), 9 * ConfUnit * Len(w) >>

\* mutant of Classify: the onset threshold bounds both sides
ClassifyOneThreshold(r, onset, offset) ==
    IF GreaterEqNeg(r, onset) /\ LessEq(r, onset) THEN "none"
    ELSE IF GreaterThan(r, onset) THEN "onset"
    ELSE "offset"

\* the if / elif / else chain on filter_response
Classify(r, onset, offset) ==
    IF GreaterEqNeg(r, offset) /\ LessEq(r, onset) THEN "none"
    ELSE IF GreaterThan(r, onset) THEN "onset"
    ELSE "offset"

\* min(abs(filter_response), 1.)
ClampConfidence(r) ==
    IF Abs(r[1]) < r[2] THEN << Abs(r[1]), r[2] >> ELSE << 1, 1 >>

\* mutant of ListOf: base_data refers to the deque itself
ListOfShared(w) == [shared |-> TRUE, items |-> w]

\* list(self.history): a new list object holding the deque's items, as
\* opposed to a second reference to the deque itself
ListOf(w) == [shared |-> FALSE, items |-> w]

\* what a reader of a base_data finds while the deque holds `deque`
Items(base_data, deque) ==
    IF base_data.shared THEN deque ELSE base_data.items

\* mutant of ResetBlinks: the list of the call before is kept
ResetBlinksKeep(blinks) == blinks

\* events['blinks'] = []
ResetBlinks(blinks) == << >>

\* mutant of ResetRecentBlink: the event of the call before stays exposed
ResetRecentBlinkKeep(blink) == blink

\* self._recent_blink = None
ResetRecentBlink(blink) == << >>

\* mutant of BlinkEntry: the event is stamped with the newest sample
BlinkEntryNewest(w, blink_type, r) ==
    [ topic |-> "blink",
      type |-> blink_type,
      confidence |-> ClampConfidence(r),
      base_data |-> ListOf(w),
      timestamp |-> Last(w).timestamp,
      record |-> TRUE ]

BlinkEntry(w, blink_type, r) ==
    [ topic |-> "blink",
      type |-> blink_type,
      confidence |-> ClampConfidence(r),
      base_data |-> ListOf(w),
      timestamp |-> w[(Len(w) \div 2) + 1].timestamp,
      record |-> TRUE ]

\* the ordered sample sequences of length k with timestamps in lo..hi
RECURSIVE OrderedSamples(_, _, _)
OrderedSamples(lo, hi, k) ==
    IF k = 0 THEN { << >> }
    ELSE UNION { { << [timestamp |-> t, confidence |-> c] >> \o rest :
                     rest \in OrderedSamples(t, hi, k - 1) } :
                 t \in lo..hi, c \in Confidences }

Min(a, b) == IF a < b THEN a ELSE b

\* events['pupil_positions'] of the next call: ordered, and not older than
\* the newest sample already in the stream
NewSamples ==
    LET lo == IF Len(history) = 0 THEN 0 ELSE Last(history).timestamp
    IN  UNION { OrderedSamples(lo, MaxTime, k) :
                k \in 0..Min(MaxBatch, MaxWindow - Len(history)) }

RecentEvents(new) ==
    LET ext == history \o new
        win == TrimHistory(ext, history_length)
        r == StreamResponse(win)
        kind == Classify(r, onset_confidence_threshold,
                         offset_confidence_threshold)
        none == ResetBlinks(events_blinks)
        nothing == ResetRecentBlink(recent_blink)
    IN  /\ appended' = Len(new)
        /\ extended' = ext
        /\ history' = win
        /\ IF InsufficientHistory(win, history_length)
           THEN /\ ret' = "gate"
                /\ response' = << >>
                /\ events_blinks' = none
                /\ recent_blink' = nothing
           ELSE /\ response' = r
                /\ IF kind = "none"
                   THEN /\ ret' = "unclassified"
                        /\ events_blinks' = none
                        /\ recent_blink' = nothing
                   ELSE /\ ret' = "emitted"
                        /\ events_blinks' =
                              Append(none, BlinkEntry(win, kind, r))
                        /\ recent_blink' = << BlinkEntry(win, kind, r) >>
        /\ UNCHANGED << history_length, onset_confidence_threshold,
                        offset_confidence_threshold >>
        /\ UNCHANGED batchVars

\* a call of the world process; no run is being recorded
Ingest == \E new \in NewSamples : RecentEvents(new) /\ UNCHANGED recorded

\* between two calls the locals of the last one are gone; the deque, the
\* caller's events and _recent_blink stay as the call left them
CallIsOver ==
    /\ ret' = "idle"
    /\ appended' = 0
    /\ extended' = << >>
    /\ response' = << >>
    /\ UNCHANGED << history, events_blinks, recent_blink, recorded >>

\* the sliders of init_ui write the plain attributes
SliderHistoryLength(val) ==
    /\ history_length' = val
    /\ UNCHANGED << onset_confidence_threshold, offset_confidence_threshold >>
    /\ CallIsOver
    /\ UNCHANGED batchVars

SliderOnset(val) ==
    /\ onset_confidence_threshold' = val
    /\ UNCHANGED << history_length, offset_confidence_threshold >>
    /\ CallIsOver
    /\ UNCHANGED batchVars

SliderOffset(val) ==
    /\ offset_confidence_threshold' = val
    /\ UNCHANGED << history_length, onset_confidence_threshold >>
    /\ CallIsOver
    /\ UNCHANGED batchVars

MoveHistoryLength ==
    \E val \in HistoryLengths \ {history_length} : SliderHistoryLength(val)
MoveOnset ==
    \E val \in Thresholds \ {onset_confidence_threshold} : SliderOnset(val)
MoveOffset ==
    \E val \in Thresholds \ {offset_confidence_threshold} : SliderOffset(val)

\* Blink_Detection.__init__
Init ==
    /\ history = << >>
    /\ history_length \in HistoryLengths
    /\ onset_confidence_threshold \in Thresholds
    /\ offset_confidence_threshold \in Thresholds
    /\ events_blinks = << >>
    /\ recent_blink = << >>
    /\ appended = 0
    /\ extended = << >>
    /\ response = << >>
    /\ ret = "idle"
    /\ recorded = << >>
    /\ pupil_positions = << >>
    /\ timestamps = << >>
    /\ filter_response = << >>
    /\ response_classification = << >>
    /\ notifications = << >>
    /\ raised = "idle"
    /\ written = { }

Next == Ingest \/ MoveHistoryLength \/ MoveOnset \/ MoveOffset

Spec == Init /\ [][Next]_vars

\* ---------------------------------------- Offline_Blink_Detection (batch)
\* mutant of TimestampsOf: the new timestamps are added to the stored ones
TimestampsAppended(all_pp) ==
    timestamps \o [i \in 1..Len(all_pp) |-> all_pp[i].timestamp]

\* self.timestamps = [pp['timestamp'] for pp in all_pp]
TimestampsOf(all_pp) == [i \in 1..Len(all_pp) |-> all_pp[i].timestamp]

\* Python's round() of the quotient n / d, n >= 0, d > 0: to the nearest
\* integer, a tie to the even one
RoundHalfEven(n, d) ==
    LET q == n \div d
        r == n % d
    IN  IF 2 * r < d THEN q
        ELSE IF 2 * r > d THEN q + 1
        ELSE IF q % 2 = 0 THEN q ELSE q + 1

\* round(len(all_pp) * self.history_length / total_time)
FilterSize(all_pp, hl) ==
    RoundHalfEven(Len(all_pp) * hl,
                  Last(all_pp).timestamp - all_pp[1].timestamp)

\* entry j (0-based) of the full convolution of the activity with the signs
\* of the kernel: the sum of activity[i] * sign(kernel[j - i]) over i..M-1
RECURSIVE FullConvolution(_, _, _, _)
FullConvolution(all_pp, filter_size, j, i) ==
    IF i >= Len(all_pp) THEN 0
    ELSE (IF 0 <= j - i /\ j - i < filter_size
          THEN all_pp[i + 1].confidence * FilterSign(j - i, filter_size)
          ELSE 0)
         + FullConvolution(all_pp, filter_size, j, i + 1)

Max(a, b) == IF a > b THEN a ELSE b

\* np.convolve(activity, blink_filter, 'same') / 0.45: the middle
\* max(M, N) entries of the full convolution, which begin at the entry
\* n - 1 - n // 2 for n = min(M, N); each entry as a fraction
ConvolveSame(all_pp, filter_size) ==
    LET n == Min(Len(all_pp), filter_size)
        first == n - 1 - (n \div 2)
    IN  [ k \in 1..Max(Len(all_pp), filter_size) |->
            << 20 * FullConvolution(all_pp, filter_size, k - 1 + first, 0),
               9 * ConfUnit * filter_size >> ]

\* mutant of ClassifyBatch: the lower bound is the offset threshold
ClassifyBatchTwoThresholds(f, onset, offset) ==
    IF LessThanNeg(f, offset) THEN -1
    ELSE IF GreaterThan(f, onset) THEN 1
    ELSE 0

\* zeros; [onsets] = 1.; [offsets] = -1.  Both masks use the onset threshold
ClassifyBatch(f, onset, offset) ==
    IF LessThanNeg(f, onset) THEN -1
    ELSE IF GreaterThan(f, onset) THEN 1
    ELSE 0

\* recalculate() on all_pp = self.g_pool.pupil_positions, statement by
\* statement up to the first one that raises
Recalculate(all_pp) ==
    IF Len(all_pp) = 0
    THEN \* all_pp[-1] of an empty list
         /\ raised' = "IndexError"
         /\ written' = { }
         /\ UNCHANGED << timestamps, filter_response,
                         response_classification >>
    ELSE IF Last(all_pp).timestamp - all_pp[1].timestamp = 0
    THEN \* ... / total_time
         /\ raised' = "ZeroDivisionError"
         /\ written' = { }
         /\ UNCHANGED << timestamps, filter_response,
                         response_classification >>
    ELSE LET filter_size == FilterSize(all_pp, history_length)
         IN  /\ timestamps' = TimestampsOf(all_pp)
             /\ IF filter_size = 0
                THEN \* np.convolve: v cannot be empty
                     /\ raised' = "ValueError"
                     /\ written' = { "timestamps" }
                     /\ UNCHANGED << filter_response,
                                     response_classification >>
                ELSE /\ raised' = "none"
                     /\ written' = { "timestamps", "filter_response",
                                     "response_classification" }
                     /\ filter_response' = ConvolveSame(all_pp, filter_size)
                     /\ response_classification' =
                          [ k \in 1..Len(filter_response') |->
                              ClassifyBatch(filter_response'[k],
                                  onset_confidence_threshold,
                                  offset_confidence_threshold) ]

NoRecalculation ==
    /\ raised' = "idle"
    /\ written' = { }
    /\ UNCHANGED << timestamps, filter_response, response_classification >>

ShouldRecalculate == [subject |-> "blink_detection.should_recalculate",
                      delay |-> 2]   \* 'delay': .2, in tenths

\* mutant of NotifyIfChanged: every assignment notifies
NotifyAlways(stored, val) ==
    /\ Len(notifications) < MaxPending
    /\ notifications' = Append(notifications, ShouldRecalculate)

\* notify_all from a property setter, when the stored value differs
NotifyIfChanged(stored, val) ==
    IF stored # val
    THEN /\ Len(notifications) < MaxPending
         /\ notifications' = Append(notifications, ShouldRecalculate)
    ELSE UNCHANGED notifications

SetHistoryLength(val) ==
    /\ NotifyIfChanged(history_length, val)
    /\ history_length' = val
    /\ NoRecalculation
    /\ UNCHANGED << onset_confidence_threshold, offset_confidence_threshold,
                    pupil_positions >>
    /\ UNCHANGED streamVars

SetOnsetConfidenceThreshold(val) ==
    /\ NotifyIfChanged(onset_confidence_threshold, val)
    /\ onset_confidence_threshold' = val
    /\ NoRecalculation
    /\ UNCHANGED << history_length, offset_confidence_threshold,
                    pupil_positions >>
    /\ UNCHANGED streamVars

SetOffsetConfidenceThreshold(val) ==
    /\ NotifyIfChanged(offset_confidence_threshold, val)
    /\ offset_confidence_threshold' = val
    /\ NoRecalculation
    /\ UNCHANGED << history_length, onset_confidence_threshold,
                    pupil_positions >>
    /\ UNCHANGED streamVars

\* on_notify(notification), with g_pool.pupil_positions holding all_pp
OnNotify(notification, all_pp) ==
    IF notification.subject = "blink_detection.should_recalculate"
    THEN Recalculate(all_pp)
    ELSE IF notification.subject = "pupil_positions_changed"
    THEN Recalculate(all_pp)
    ELSE \* "should_export": export() is pass; any other subject: nothing
         NoRecalculation

\* the host delivers the oldest notification of a setter
DeliverNotification ==
    /\ Len(notifications) > 0
    /\ OnNotify(Head(notifications), pupil_positions)
    /\ notifications' = Tail(notifications)
    /\ UNCHANGED << history_length, onset_confidence_threshold,
                    offset_confidence_threshold, pupil_positions >>
    /\ UNCHANGED streamVars

\* the recordings: ordered, at most MaxSamples samples.  recalculate reads
\* the timestamps only through last - first, so a recording's clock is
\* taken to start at its first sample
RecordingsUpTo(n) ==
    { << >> } \cup
    UNION { { << [timestamp |-> 0, confidence |-> c] >> \o rest :
                rest \in OrderedSamples(0, MaxDuration, k) } :
            c \in Confidences, k \in 0..(n - 1) }

Recordings == RecordingsUpTo(MaxSamples)

\* the host replaces g_pool.pupil_positions and announces it
PupilPositionsChanged(all_pp) ==
    /\ pupil_positions' = all_pp
    /\ OnNotify([subject |-> "pupil_positions_changed"], all_pp)
    /\ UNCHANGED << history_length, onset_confidence_threshold,
                    offset_confidence_threshold, notifications >>
    /\ UNCHANGED streamVars

\* the host asks for an export
ShouldExport ==
    /\ raised # "idle"
    /\ OnNotify([subject |-> "should_export"], pupil_positions)
    /\ UNCHANGED << history_length, onset_confidence_threshold,
                    offset_confidence_threshold, notifications,
                    pupil_positions >>
    /\ UNCHANGED streamVars

ChangeHistoryLength == \E val \in HistoryLengths : SetHistoryLength(val)
ChangeOnset == \E val \in Thresholds : SetOnsetConfidenceThreshold(val)
ChangeOffset == \E val \in Thresholds : SetOffsetConfidenceThreshold(val)
ChangePupilPositions ==
    \E all_pp \in Recordings \ {pupil_positions} :
        PupilPositionsChanged(all_pp)

\* Offline_Blink_Detection.__init__: the three setters run on None, so
\* each of them notifies; the response curve is empty
Constructed ==
    /\ history = << >>
    /\ history_length \in HistoryLengths
    /\ onset_confidence_threshold \in Thresholds
    /\ offset_confidence_threshold \in Thresholds
    /\ events_blinks = << >>
    /\ recent_blink = << >>
    /\ appended = 0
    /\ extended = << >>
    /\ response = << >>
    /\ ret = "idle"
    /\ recorded = << >>
    /\ timestamps = << >>
    /\ filter_response = << >>
    /\ response_classification = << >>
    /\ notifications = << ShouldRecalculate, ShouldRecalculate,
                          ShouldRecalculate >>
    /\ raised = "idle"
    /\ written = { }

InitOffline == Constructed /\ pupil_positions = << >>

NextOffline ==
    \/ ChangeHistoryLength
    \/ ChangeOnset
    \/ ChangeOffset
    \/ DeliverNotification
    \/ ChangePupilPositions
    \/ ShouldExport

SpecOffline == InitOffline /\ [][NextOffline]_vars

\* one recording and one filter: the detector is constructed on a loaded
\* recording, and from then on only the offset threshold is moved
InitLoaded == Constructed /\ pupil_positions \in RecordingsUpTo(MaxLoaded)

NextOffsetOnly == ChangeOffset \/ DeliverNotification

SpecOffsetOnly == InitLoaded /\ [][NextOffsetOnly]_vars

\* one recording and the three settings: the detector is constructed on a
\* loaded recording, the settings are assigned, and the host delivers every
\* notification it was given
InitRecording == Constructed /\ pupil_positions \in Recordings

NextReconfigure ==
    \/ ChangeHistoryLength
    \/ ChangeOnset
    \/ ChangeOffset
    \/ DeliverNotification

SpecReconfigure == InitRecording /\ [][NextReconfigure]_vars

\* a recording of two samples, a tick apart, with a drop of the confidence
DropRecording == << [timestamp |-> 0, confidence |-> ConfUnit],
                    [timestamp |-> 1, confidence |-> 0] >>

\* the same on one given recording; the host delivers every notification
\* it was given
InitDropRecording == Constructed /\ pupil_positions = DropRecording

SpecNotify ==
    /\ InitDropRecording
    /\ [][NextReconfigure]_vars
    /\ WF_vars(DeliverNotification)

\* ------------------------------------------------ runs on a given stream
\* Both detectors are given the same samples, g_pool.pupil_positions, and
\* the default settings: history_length 0.2 s, thresholds 0.5 and 0.5.
\* Timestamps are in hundredths of a second.  The streaming detector gets
\* the samples in order, a few per call, and the events of its calls are
\* collected in `recorded`.

\* n samples, `period` apart, the first at 0
UniformStream(period, confidence) ==
    [ i \in 1..Len(confidence) |->
        [timestamp |-> (i - 1) * period, confidence |-> confidence[i]] ]

\* n confidences: `low` at the 0-based indices from..(to - 1), 1.0 elsewhere
BlinkProfile(n, from, to, low) ==
    [ i \in 1..n |-> IF from < i /\ i <= to THEN low ELSE ConfUnit ]

\* 100 Hz for 1 s: 1.0 on [0, 0.3) and [0.7, 1.0), 0.1 on [0.3, 0.7)
SimulatedBlink ==
    UniformStream(1, BlinkProfile(100, 30, 70, ConfUnit \div 10))

\* 100 Hz for 1 s with one step at 0.5 s: 1.0 down to 0.1, and 0.1 up to 1.0
StepDrop ==
    UniformStream(1, [ i \in 1..100 |->
                         IF i <= 50 THEN ConfUnit ELSE ConfUnit \div 10 ])
StepRise ==
    UniformStream(1, [ i \in 1..100 |->
                         IF i <= 50 THEN ConfUnit \div 10 ELSE ConfUnit ])

\* 1.0, then 0 or 0.1 for longer than history_length, then 1.0 again, at
\* 100, 10, 6.7 and 4 Hz
DropAndRecoverStreams ==
    { SimulatedBlink } \cup
    { UniformStream(period, BlinkProfile(12, 4, 8, low)) :
        period \in {10, 15, 25}, low \in {0, ConfUnit \div 10} }

\* 50 Hz for 1 s, confidence 0.9
ConstantStream ==
    UniformStream(2, [ i \in 1..50 |-> (9 * ConfUnit) \div 10 ])

\* how many samples of the stream the streaming detector has been given
Fed(stream) ==
    IF Len(history) = 0 THEN 0
    ELSE Cardinality({ i \in 1..Len(stream) :
                         stream[i].timestamp <= Last(history).timestamp })

\* one recent_events call on the next k samples of the stream
Feed(k) ==
    LET n == Fed(pupil_positions)
    IN  /\ n + k <= Len(pupil_positions)
        /\ RecentEvents(SubSeq(pupil_positions, n + 1, n + k))
        /\ recorded' = recorded \o events_blinks'

FeedOne == Feed(1)
FeedSeveral == \E k \in 1..(MaxBatch + 1) : Feed(k)

\* both detectors constructed with the defaults named above
InitRun ==
    /\ history = << >>
    /\ history_length = 20
    /\ onset_confidence_threshold = ThScale \div 2
    /\ offset_confidence_threshold = ThScale \div 2
    /\ events_blinks = << >>
    /\ recent_blink = << >>
    /\ appended = 0
    /\ extended = << >>
    /\ response = << >>
    /\ ret = "idle"
    /\ recorded = << >>
    /\ timestamps = << >>
    /\ filter_response = << >>
    /\ response_classification = << >>
    /\ notifications = << ShouldRecalculate, ShouldRecalculate,
                          ShouldRecalculate >>
    /\ raised = "idle"
    /\ written = { }

InitOnePerCall ==
    /\ InitRun
    /\ pupil_positions \in DropAndRecoverStreams \cup { StepDrop, StepRise }

NextOnePerCall == FeedOne \/ DeliverNotification

SpecOnePerCall == InitOnePerCall /\ [][NextOnePerCall]_vars

InitConstant == InitRun /\ pupil_positions = ConstantStream

NextConstant == FeedSeveral \/ DeliverNotification

SpecConstant == InitConstant /\ [][NextConstant]_vars

\* ------------------------------------------------------------- claims
Span(w) == Last(w).timestamp - w[1].timestamp

\* C1: a call appends an event only if the window it leaves holds at least
\* 2 samples that span at least history_length; below that span no event
\* is emitted.
C1_EventOnlyWithFullHistory ==
    (ret # "idle" /\ Len(events_blinks) > 0)
        => (Len(history) >= 2 /\ Span(history) >= history_length)

\* a call that emitted with the span exactly history_length
C1_Witness ==
    /\ ret = "emitted"
    /\ Len(events_blinks) = 1
    /\ history_length > 0
    /\ Span(history) = history_length

\* C2: a call leaves 0 or 1 entries in events['blinks'], however many
\* samples it appended, and none of them is left over from the call before.
C2_AtMostOneEventPerCall ==
    ret # "idle" =>
        /\ Len(events_blinks) <= 1
        /\ (ret \in {"gate", "unclassified"}) => events_blinks = << >>
        /\ ret = "emitted" =>
             /\ Len(events_blinks) = 1
             /\ events_blinks[1].base_data.items = history

\* a call that appended several samples and emitted one event
C2_Witness ==
    /\ ret = "emitted"
    /\ appended >= 2
    /\ Len(events_blinks) = 1

\* C3: past the history gate exactly one of three cases holds: no event when
\* -offset <= response <= onset, Onset exactly when response > onset,
\* Offset exactly when response < -offset.
C3_ClassificationExclusive ==
    (ret \in {"unclassified", "emitted"}) =>
        LET num == response[1]
            den == response[2]
            on == onset_confidence_threshold
            off == offset_confidence_threshold
            above == num * ThScale > on * den
            below == num * ThScale < (-off) * den
        IN  /\ den > 0
            /\ ~(above /\ below)
            /\ (ret = "unclassified") <=> (~above /\ ~below)
            /\ (ret = "emitted" /\ events_blinks[1].type = "onset") <=> above
            /\ (ret = "emitted" /\ events_blinks[1].type = "offset") <=> below

\* an Offset that only the offset threshold explains: the response is not
\* below minus the onset threshold
C3_Witness ==
    /\ ret = "emitted"
    /\ events_blinks[1].type = "offset"
    /\ onset_confidence_threshold # offset_confidence_threshold
    /\ response[1] * ThScale >= (-onset_confidence_threshold) * response[2]

\* C4: after a call every sample from the second on is within
\* history_length of the newest; only the oldest may be older.
C4_OnlyOldestOutdated ==
    ret # "idle" =>
        \A i \in 2..Len(history) :
            history[i].timestamp >= Last(history).timestamp - history_length

\* a call that popped samples and left one sample older than the horizon
C4_Witness ==
    /\ ret # "idle"
    /\ Len(history) >= 2
    /\ Len(history) < Len(extended)
    /\ history[1].timestamp < Last(history).timestamp - history_length

LastTwo(w) == << w[Len(w) - 1], w[Len(w)] >>

\* C5: trimming keeps the two most recent samples of a window of 2 or
\* more, leaves a shorter window untouched, and a window that holds a
\* sample is never empty again.
C5_TrimKeepsTwo ==
    /\ [](ret # "idle" =>
            /\ Len(extended) >= 2 =>
                 (Len(history) >= 2 /\ LastTwo(history) = LastTwo(extended))
            /\ Len(extended) < 2 => history = extended)
    /\ [][Len(history) >= 1 => Len(history') >= 1]_vars

\* a call that trimmed a window down to exactly its two newest samples
C5_Witness ==
    /\ ret # "idle"
    /\ Len(extended) > 2
    /\ Len(history) = 2

\* C6: an emitted event carries the timestamp of the sample at index
\* size // 2 of the window the call leaves, all of that window in order as
\* base_data, which no later step alters, and the confidence
\* min(|response|, 1).
C6_EventFromPostTrimWindow ==
    /\ [](ret = "emitted" =>
            LET e == events_blinks[1]
                mag == Abs(response[1])
                den == response[2]
            IN  /\ e.timestamp = history[(Len(history) \div 2) + 1].timestamp
                /\ history[1].timestamp <= e.timestamp
                /\ e.timestamp <= Last(history).timestamp
                /\ Items(e.base_data, history) = history
                /\ IF mag >= den
                   THEN e.confidence[1] = e.confidence[2]
                   ELSE e.confidence[1] * den = mag * e.confidence[2]
                /\ e.confidence[2] > 0
                /\ 0 <= e.confidence[1]
                /\ e.confidence[1] <= e.confidence[2]
                /\ recent_blink = events_blinks)
    /\ [][Len(events_blinks) = 1 =>
            Items(events_blinks[1].base_data, history')
              = Items(events_blinks[1].base_data, history)]_vars

\* an event of an unclamped confidence whose timestamp is strictly inside
\* the window
C6_Witness ==
    /\ ret = "emitted"
    /\ Abs(response[1]) < response[2]
    /\ events_blinks[1].confidence[1] > 0
    /\ history[1].timestamp < events_blinks[1].timestamp
    /\ events_blinks[1].timestamp < Last(history).timestamp

Duration(all_pp) == Last(all_pp).timestamp - all_pp[1].timestamp

\* C7: recalculate on fewer than 2 samples, or on samples of zero
\* duration, fails with InsufficientDataError.
C7_InsufficientDataError ==
    (raised # "idle"
       /\ (Len(pupil_positions) < 2 \/ Duration(pupil_positions) = 0))
        => raised = "InsufficientDataError"

\* C8: recalculate with a derived filter_size of 0 or 1 fails with
\* DegenerateWindowError and produces no response curve.  Stated for a
\* positive history_length, the only kind the slider offers.
C8_DegenerateWindowError ==
    (raised # "idle"
       /\ history_length > 0
       /\ Len(pupil_positions) >= 2
       /\ Duration(pupil_positions) # 0
       /\ FilterSize(pupil_positions, history_length) \in {0, 1})
        => (raised = "DegenerateWindowError" /\ written = { })

AllFields == { "timestamps", "filter_response", "response_classification" }

\* C9: after any recalculate call, failed or not, the three fields have
\* the same length and the call assigned either all of them or none.
\* Stated for a positive history_length, the only kind the slider offers.
C9_AtomicReplace ==
    (raised # "idle" /\ history_length > 0) =>
        /\ Len(timestamps) = Len(filter_response)
        /\ Len(filter_response) = Len(response_classification)
        /\ written \in { { }, AllFields }

\* C10: response_classification[i] is +1 where filter_response[i] is above
\* the onset threshold, -1 where it is below minus the onset threshold and
\* 0 otherwise; moving the offset threshold alone never changes it.
C10_BatchUsesOnsetThreshold ==
    /\ [](raised = "none" =>
            /\ Len(response_classification) = Len(filter_response)
            /\ \A k \in 1..Len(filter_response) :
                 LET num == filter_response[k][1]
                     den == filter_response[k][2]
                     on == onset_confidence_threshold
                     c == response_classification[k]
                 IN  /\ den > 0
                     /\ c \in {-1, 0, 1}
                     /\ (c = 1) <=> (num * ThScale > on * den)
                     /\ (c = -1) <=> (num * ThScale < (-on) * den))
    /\ [][Len(response_classification) > 0 =>
            response_classification' = response_classification]_vars

\* a response strictly between minus the onset and minus the offset
\* threshold, classified 0
C10_Witness ==
    /\ raised = "none"
    /\ \E k \in 1..Len(filter_response) :
         /\ LessThanNeg(filter_response[k], offset_confidence_threshold)
         /\ GreaterEqNeg(filter_response[k], onset_confidence_threshold)
         /\ response_classification[k] = 0

Settings == << history_length, onset_confidence_threshold,
               offset_confidence_threshold >>

\* C11: recalculate is idempotent: a second call in a row on the same
\* samples, history_length and thresholds ends as the first did and leaves
\* timestamps, filter_response and response_classification as the first
\* call left them, whatever the calls before had stored.
C11_RecalculateIdempotent ==
    [][(raised # "idle" /\ raised' # "idle"
          /\ pupil_positions' = pupil_positions /\ Settings' = Settings)
        => /\ raised' = raised
           /\ timestamps' = timestamps
           /\ filter_response' = filter_response
           /\ response_classification' = response_classification]_vars

\* a call that classified a sample as non-zero has just run, and the next
\* notification will run recalculate once more on the same inputs
C11_Witness ==
    /\ raised = "none"
    /\ Len(notifications) >= 1
    /\ \E k \in 1..Len(response_classification) :
         response_classification[k] # 0

OfType(blink_type) ==
    { i \in 1..Len(recorded) : recorded[i].type = blink_type }

\* the confidence of an event is above 0.5
Confident(e) == 2 * e.confidence[1] > e.confidence[2]

\* every recorded Onset was emitted before every recorded Offset
OnsetsBeforeOffsets ==
    \A i \in OfType("onset") : \A j \in OfType("offset") : i < j

\* C13: the simulated blink, one sample per call: the whole run emits
\* exactly one Onset, stamped near 0.3 s, and exactly one Offset, stamped
\* near 0.7 s, each of a confidence above 0.5.
C13_OneOnsetOneOffset ==
    (pupil_positions = SimulatedBlink /\ Fed(SimulatedBlink) = 100) =>
        /\ Cardinality(OfType("onset")) = 1
        /\ Cardinality(OfType("offset")) = 1
        /\ \A i \in OfType("onset") :
             recorded[i].timestamp \in 25..35 /\ Confident(recorded[i])
        /\ \A i \in OfType("offset") :
             recorded[i].timestamp \in 65..75 /\ Confident(recorded[i])

\* C13, amended: the simulated blink, one sample per call: every call
\* whose window responds above 0.5 emits an Onset and every call whose
\* window responds below -0.5 an Offset, so the run emits more than one of
\* each; every Onset is stamped within 0.05 s of 0.3 s and every Offset
\* within 0.05 s of 0.7 s, each has a confidence above 0.5, and every Onset
\* comes before every Offset.
C13_OnsetRunThenOffsetRun ==
    pupil_positions = SimulatedBlink =>
        /\ \A i \in OfType("onset") :
             recorded[i].timestamp \in 25..35 /\ Confident(recorded[i])
        /\ \A i \in OfType("offset") :
             recorded[i].timestamp \in 65..75 /\ Confident(recorded[i])
        /\ OnsetsBeforeOffsets
        /\ (ret = "emitted") <=>
             (/\ ret \in {"unclassified", "emitted"}
              /\ \/ GreaterThan(response, onset_confidence_threshold)
                 \/ LessThanNeg(response, offset_confidence_threshold))
        /\ Fed(SimulatedBlink) = 100 =>
             /\ Cardinality(OfType("onset")) > 1
             /\ Cardinality(OfType("offset")) > 1

\* the whole blink was fed and the run recorded Onsets and Offsets
C13_Witness ==
    /\ pupil_positions = SimulatedBlink
    /\ Fed(SimulatedBlink) = 100
    /\ Cardinality(OfType("onset")) = 11
    /\ Cardinality(OfType("offset")) = 11

\* C14: a stream that is 1.0, drops to near 0 for longer than
\* history_length and recovers to 1.0, one sample per call, default
\* thresholds: the run emits an Onset and an Offset, and every Onset comes
\* before every Offset.
C14_OnsetThenOffset ==
    (pupil_positions \in DropAndRecoverStreams
       /\ Fed(pupil_positions) = Len(pupil_positions)) =>
        /\ OfType("onset") # { }
        /\ OfType("offset") # { }
        /\ OnsetsBeforeOffsets

\* C15: constant confidence 0.9 at 50 Hz for 1 s: no call emits an event,
\* whether it appends one sample or several.
C15_ConstantStreamSilent ==
    pupil_positions = ConstantStream =>
        /\ ret # "emitted"
        /\ events_blinks = << >>
        /\ recent_blink = << >>
        /\ recorded = << >>

\* the last call of the run appended several samples, found enough history
\* and classified nothing
C15_Witness ==
    /\ pupil_positions = ConstantStream
    /\ Fed(ConstantStream) = 50
    /\ ret = "unclassified"
    /\ appended >= 2
    /\ recorded = << >>

\* C16: constant confidence 0.9 at 50 Hz for 1 s: recalculate classifies
\* every index as 0, the first and the last ones included.
C16_ConstantRecordingAllZero ==
    (pupil_positions = ConstantStream /\ raised = "none") =>
        /\ Len(response_classification) = 50
        /\ \A k \in 1..Len(response_classification) :
             response_classification[k] = 0

\* every sample of the window has the confidence of the first
Uniform(w) == \A i \in 1..Len(w) : w[i].confidence = w[1].confidence

\* C17: on a window of uniform confidence c the streaming response is 0
\* when the window size n is even, and c / n when n is odd.
C17_UniformResidual ==
    (ret \in {"unclassified", "emitted"} /\ Uniform(history)) =>
        LET n == Len(history)
            c == history[1].confidence
        IN  IF n % 2 = 0
            THEN response[1] = 0
            ELSE response[1] * ConfUnit * n = c * response[2]

\* C17, amended: on a window of uniform confidence c the streaming
\* response is 0 when the window size n is even, and -c / (0.45 * n) when
\* n is odd: the dot product is -c / n, the middle sample being weighted
\* negatively, and it is divided by 0.45.
C17_UniformResidualNegative ==
    (ret \in {"unclassified", "emitted"} /\ Uniform(history)) =>
        LET n == Len(history)
            c == history[1].confidence
        IN  /\ response[2] > 0
            /\ IF n % 2 = 0
               THEN response[1] = 0
               ELSE response[1] * 9 * ConfUnit * n = (-20) * c * response[2]

\* an odd window of a uniform confidence above 0
C17_Witness ==
    /\ ret \in {"unclassified", "emitted"}
    /\ Uniform(history)
    /\ Len(history) % 2 = 1
    /\ history[1].confidence > 0

\* what recalculate stored for the sample that carries an event's timestamp
ClassificationAt(e) ==
    response_classification[
        CHOOSE k \in 1..Len(timestamps) : timestamps[k] = e.timestamp ]

\* C18: batch and streaming agree on polarity: on a sequence with one step
\* drop recalculate classifies as +1 the samples that recent_events stamps
\* its Onset events with, and on a step rise as -1 the samples of the
\* Offset events.
C18_SamePolarity ==
    (pupil_positions \in {StepDrop, StepRise} /\ raised = "none") =>
        \A i \in 1..Len(recorded) :
            /\ recorded[i].type = "onset" => ClassificationAt(recorded[i]) = 1
            /\ recorded[i].type = "offset" =>
                 ClassificationAt(recorded[i]) = -1

\* C19: after a recent_events call _recent_blink is the event that call
\* emitted, or None if it emitted none; the event of an earlier call is not
\* exposed after a call that emitted nothing, the calls that return at the
\* history gate included.
C19_RecentBlinkOfThisCall ==
    /\ [](ret # "idle" =>
            /\ recent_blink = events_blinks
            /\ (ret = "emitted") <=> (Len(recent_blink) = 1)
            /\ (ret \in {"gate", "unclassified"}) <=> (recent_blink = << >>))
    /\ [][(recent_blink # << >> /\ ret' \in {"gate", "unclassified"})
            => recent_blink' = << >>]_vars

\* a call that emitted nothing, on a deque that the call before left as a
\* window which classifies as a blink under the settings in force
C19_Witness ==
    /\ ret \in {"gate", "unclassified"}
    /\ recent_blink = << >>
    /\ appended >= 1
    /\ LET before == SubSeq(extended, 1, Len(extended) - appended)
       IN  /\ ~InsufficientHistory(before, history_length)
           /\ Classify(StreamResponse(before), onset_confidence_threshold,
                       offset_confidence_threshold) # "none"

====
